---- MODULE Spec2Model ----
(***************************************************************************)
(* Six independent stock-screening scripts (crash_recovery_strategy,       *)
(* stock_scanner_go, multidim_resonance_strategy, dragon_breakout,         *)
(* volume_price_strategy, weekly_box_breakout).  Every script runs the     *)
(* same pipeline: list the per-symbol CSV files, map a per-symbol worker   *)
(* over a process pool, drop the None results, join the name table, sort   *)
(* and write a time-stamped CSV report.                                    *)
(*                                                                         *)
(* Encoding of numbers.  Prices and moving averages are in tenths of a     *)
(* yuan (12.0 -> 120), percentages (pct change, turnover) in tenths of a   *)
(* percent (-3.0 -> -30), RSI and win rate in hundredths (28.00 -> 2800),  *)
(* K of KDJ in tenths.  A float that may be NaN is a sequence: <<v>> is    *)
(* the number v and <<>> is NaN; every comparison with NaN is FALSE, as    *)
(* in IEEE arithmetic.                                                     *)
(*                                                                         *)
(* A per-symbol CSV file is a record: its base name (the digits of the     *)
(* code), whether pandas can read it, its row count, the cell of the name  *)
(* table for its code, and the values of the columns at its last rows      *)
(* together with the trailing-window aggregates the indicators are         *)
(* computed from.                                                          *)
(***************************************************************************)
EXTENDS Integers, Sequences, FiniteSets, TLC

VARIABLES script,       \* which of the six scripts this run executes
          namesExists,  \* stock_names.csv exists
          files,        \* the CSV files of stock_data, in listing order
          pc,           \* position of main()
          out,          \* per file: the worker's outcome, or pending
          names,        \* what main() loaded from the name table
          report,       \* the rows of the report of this run, in order
          written,      \* this run wrote a report file
          printed,      \* the console message of this run
          clock,        \* wall clock: [d, m, s]
          startedAt,    \* the clock when this run started
          nowAt,        \* the value datetime.now() gave this run
          history,      \* the report files written so far: run, start time,
                        \* time of writing, number of rows, path
          run           \* index of the current run

vars == <<script, namesExists, files, pc, out, names, report, written,
          printed, clock, startedAt, nowAt, history, run>>

-----------------------------------------------------------------------------
(* Bounds of the model *)

MaxFiles == 2
MaxRuns == 2
MaxTick == 1
MaxHist == 2

-----------------------------------------------------------------------------
(* Floats *)

NaN == <<>>
Num(v) == <<v>>
IsNaN(x) == x = <<>>
\* comparisons of two floats: FALSE as soon as one is NaN
FLt(a, b) == ~IsNaN(a) /\ ~IsNaN(b) /\ a[1] < b[1]
FGt(a, b) == FLt(b, a)
FLe(a, b) == ~IsNaN(a) /\ ~IsNaN(b) /\ a[1] <= b[1]
FGe(a, b) == FLe(b, a)

\* a / b rounded half up, for a >= 0 and b > 0
RoundDiv(a, b) == (2 * a + b) \div (2 * b)

-----------------------------------------------------------------------------
(* Strings: a code or a name is a sequence of characters *)

DigitChar == <<"0", "1", "2", "3", "4", "5", "6", "7", "8", "9">>
DigitVal(c) == (CHOOSE i \in 1..10 : DigitChar[i] = c) - 1

\* str(n) of a non-negative integer
RECURSIVE Digits(_)
Digits(n) == IF n < 10 THEN <<DigitChar[n + 1]>>
             ELSE Digits(n \div 10) \o <<DigitChar[(n % 10) + 1]>>

\* the integer pandas parses from a column of digits
RECURSIVE ToNat(_)
ToNat(s) == IF s = <<>> THEN 0
            ELSE 10 * ToNat(SubSeq(s, 1, Len(s) - 1)) + DigitVal(s[Len(s)])

\* str.zfill(w)
RECURSIVE Zfill(_, _)
Zfill(s, w) == IF Len(s) >= w THEN s ELSE Zfill(<<"0">> \o s, w)

StartsWith(s, p) == Len(s) >= Len(p) /\ SubSeq(s, 1, Len(p)) = p

Contains(s, p) ==
    \E i \in 1..(Len(s) - Len(p) + 1) : SubSeq(s, i, i + Len(p) - 1) = p

UpperChar(c) == IF c = "s" THEN "S" ELSE IF c = "t" THEN "T" ELSE c
Upper(s) == [i \in 1..Len(s) |-> UpperChar(s[i])]

\* the sentinel name (the two characters of "unknown" in the source)
Unknown == <<"u", "k">>

-----------------------------------------------------------------------------
(* The name table *)

\* a cell of the name column: a string, or the float NaN pandas gives an
\* empty cell; NoRow: the table has no row for the code
StrCell(s) == [t |-> "str", s |-> s]
FloatCell == [t |-> "float", s |-> <<>>]
NoRow == [t |-> "norow", s |-> <<>>]

\* dict.get(code, "unknown") on the mapping main() built; tbl is "loaded"
\* when the mapping was read from the file and "empty" when it is {}
NameGet(f, tbl) ==
    IF tbl = "loaded" /\ f.nm.t # "norow" THEN f.nm ELSE StrCell(Unknown)

\* `p in name`: a TypeError when name is a float
InRaises(cell) == cell.t = "float"
In(p, cell) == cell.t = "str" /\ Contains(cell.s, p)

-----------------------------------------------------------------------------
(* Outcome of one worker call *)

\* st: "none" (returned None), "rec" (returned a record), "raise" (an
\* exception left the worker), "pending" (not finished).  ind: the worker
\* reached its indicator computation.
Res(st, ind, row) == [st |-> st, ind |-> ind, row |-> row]
None(ind) == Res("none", ind, <<>>)
Raise == Res("raise", FALSE, <<>>)
Pending == Res("pending", FALSE, <<>>)

InBandNoCeiling(close) == 50 <= close

\* 5.0 <= close <= 20.0
InBand(close) == 50 <= close /\ close <= 200

\* MACD columns at the last two rows
GoldCross(f) == f.dif > f.dea /\ f.difPrev <= f.deaPrev

-----------------------------------------------------------------------------
(* crash_recovery_strategy.py *)

\* RSI of calculate_indicators, in hundredths: 100 - 100 / (1 + gain / loss)
\* on the window sums.  loss = 0 and gain > 0: gain / loss is inf and the RSI
\* is 100; both 0: NaN.
CrashRSI(g, l) ==
    IF l = 0 THEN (IF g = 0 THEN NaN ELSE Num(10000))
    ELSE Num(RoundDiv(10000 * g, g + l))

\* the code of the last row: str(int).zfill(6)
ColumnCode(f) == Zfill(Digits(ToNat(f.base)), 6)

\* V_MA5 * 5: rolling(5) sum of the volume, the last row included
VSum5(f) == f.vol + f.vp4

\* buy_signals.iloc[-1]
CrashBuySignal(f) ==
    /\ FLt(CrashRSI(f.gain, f.loss), Num(3500))
    /\ 500 * f.vol < 85 * VSum5(f)
    /\ f.dif >= f.dea
    /\ f.dif > f.difPrev

\* the historic signals that have 10 later rows: f.hist holds their profits
Wins(h) == Cardinality({i \in 1..Len(h) : h[i] > 0})
WinRate(h) == IF Len(h) = 0 THEN 0 ELSE RoundDiv(10000 * Wins(h), Len(h))

CrashScoreNoRsiBonus(f) == 70 + (IF f.close > f.ma10 THEN 15 ELSE 0)

CrashScore(f) ==
    70 + (IF f.close > f.ma10 THEN 15 ELSE 0)
       + (IF FLt(CrashRSI(f.gain, f.loss), Num(3000)) THEN 15 ELSE 0)

CrashStatus(score) == IF score >= 85 THEN "5star" ELSE "4star"

CrashRow(f) ==
    [code |-> ColumnCode(f), price |-> f.close, pct |-> f.pct,
     rsi |-> CrashRSI(f.gain, f.loss), winrate |-> WinRate(f.hist),
     score |-> CrashScore(f), status |-> CrashStatus(CrashScore(f)),
     advice |-> "sniper", name |-> NoRow]

CrashBoardReject(code) ==
    StartsWith(code, <<"3", "0">>)
      \/ ~(StartsWith(code, <<"0", "0">>) \/ StartsWith(code, <<"6", "0">>))

\* f.csv: "ok"; "bad": pd.read_csv raises; "nocol": the close column is
\* absent, a KeyError at its first use.  Every exception is caught: None.
backtest_and_screen(f) ==
    IF f.csv = "bad" THEN None(FALSE)
    ELSE IF f.n < 60 THEN None(FALSE)
    ELSE IF CrashBoardReject(ColumnCode(f)) THEN None(FALSE)
    ELSE IF f.csv = "nocol" THEN None(FALSE)
    ELSE IF ~InBand(f.close) THEN None(TRUE)
    ELSE IF CrashBuySignal(f) /\ f.pct >= -30 THEN Res("rec", TRUE, CrashRow(f))
    ELSE None(TRUE)


-----------------------------------------------------------------------------
(* stock_scanner_go.py *)

MIN_PRICE == 50
MAX_AVG_TURNOVER_30 == 25
MIN_VOLUME_RATIO == 20
MAX_VOLUME_RATIO == 85
RSI6_MAX == 2500
KDJ_K_MAX == 300
MIN_PROFIT_POTENTIAL == 8
MAX_TODAY_CHANGE == 15

\* rsi6 in hundredths: rs = gain / loss.replace(0, nan)
ScannerRSI(g, l) ==
    IF l = 0 THEN NaN ELSE Num(RoundDiv(10000 * g, g + l))

\* vol_ratio in hundredths: volume / mean of the 5 previous volumes; a zero
\* mean gives inf or NaN, which no comparison of step 5 admits
VolRatio5Prev(f) ==
    IF f.vp5 = 0 THEN NaN ELSE Num(RoundDiv(500 * f.vol, f.vp5))

\* os.path.basename(file_path).split('.')[0]
BaseCode(f) == f.base

ScannerRow(f, name) ==
    [code |-> BaseCode(f), name |-> name, price |-> f.close,
     volratio |-> VolRatio5Prev(f), rsi |-> ScannerRSI(f.gain, f.loss),
     k |-> f.k]

\* the cascade inside the try block
ScannerScreen(f, name) ==
    IF f.csv = "bad" THEN None(FALSE)
    ELSE IF f.n < 60 THEN None(FALSE)
    ELSE IF f.csv = "nocol" THEN None(FALSE)
    ELSE IF f.close < MIN_PRICE \/ f.turn30 > MAX_AVG_TURNOVER_30 THEN None(TRUE)
    ELSE IF 100 * (f.ma60 - f.close) < MIN_PROFIT_POTENTIAL * f.close
              \/ f.pct > MAX_TODAY_CHANGE THEN None(TRUE)
    ELSE IF FGt(ScannerRSI(f.gain, f.loss), Num(RSI6_MAX)) \/ f.k > KDJ_K_MAX
         THEN None(TRUE)
    ELSE IF f.close < f.ma5 THEN None(TRUE)
    ELSE IF ~(FLe(Num(MIN_VOLUME_RATIO), VolRatio5Prev(f))
               /\ FLe(VolRatio5Prev(f), Num(MAX_VOLUME_RATIO))) THEN None(TRUE)
    ELSE Res("rec", TRUE, ScannerRow(f, name))

\* stock_name.upper() is outside the try block: a float name raises
process_single_stock(f, tbl) ==
    LET name == NameGet(f, tbl) IN
    IF name.t = "float" THEN Raise
    ELSE IF Contains(Upper(name.s), <<"S", "T">>) THEN None(FALSE)
    ELSE ScannerScreen(f, name)

-----------------------------------------------------------------------------
(* multidim_resonance_strategy.py *)

MultiBoardReject(code) ==
    Contains(code, <<"S", "T">>) \/ StartsWith(code, <<"3", "0", "0">>)

\* MACD histogram: (DIF - DEA) * 2
Hist(dif, dea) == (dif - dea) * 2
\* J = 3K - 2D
JLine(k, d) == 3 * k - 2 * d

MultiTrendOk(f) == f.close > f.ma60 /\ 1000 * f.ma60 >= 998 * f.ma60Prev
MultiMacdCross(f) ==
    \/ (f.difPrev <= f.deaPrev /\ f.dif > f.dea)
    \/ (f.dif > f.dea /\ Hist(f.dif, f.dea) > Hist(f.difPrev, f.deaPrev))
MultiKdjUp(f) == f.k > f.d /\ JLine(f.k, f.d) > JLine(f.kPrev, f.dPrev)
MultiMaUp(f) == f.ma5 >= f.ma10

\* vol_ratio > 1.5, the mean over the last 5 volumes, the last row included
MultiVolBoost(f) == 50 * f.vol > 15 * VSum5(f)

MultiStrength(f) ==
    70 + (IF MultiVolBoost(f) THEN 15 ELSE 0) + (IF f.pct > 30 THEN 15 ELSE 0)

MultiSuggestion(strength) ==
    IF strength >= 90 THEN "strong"
    ELSE IF strength >= 80 THEN "firming" ELSE "early"

Min(a, b) == IF a <= b THEN a ELSE b

MultiRow(f) ==
    [code |-> BaseCode(f), price |-> f.close, pct |-> f.pct,
     score |-> Min(MultiStrength(f), 100),
     advice |-> MultiSuggestion(MultiStrength(f)), name |-> NoRow]

multidim_analyze_stock(f) ==
    IF MultiBoardReject(BaseCode(f)) THEN None(FALSE)
    ELSE IF f.csv = "bad" THEN None(FALSE)
    ELSE IF f.n < 60 THEN None(FALSE)
    ELSE IF f.csv = "nocol" THEN None(FALSE)
    ELSE IF ~InBand(f.close) THEN None(FALSE)
    ELSE IF MultiTrendOk(f) /\ MultiMacdCross(f) /\ MultiKdjUp(f) /\ MultiMaUp(f)
         THEN Res("rec", TRUE, MultiRow(f))
    ELSE None(TRUE)

-----------------------------------------------------------------------------
(* dragon_breakout.py *)

DragonBoardReject(code) ==
    ~(StartsWith(code, <<"6", "0">>) \/ StartsWith(code, <<"0", "0">>)
        \/ StartsWith(code, <<"0", "1">>))

\* drop_ratio > 0.6 with drop_ratio = (high_1y - last_price) / high_1y
DragonDeepDrop(f) == 10 * (f.high250 - f.close) > 6 * f.high250
\* vol_today > vol_ma5 * 1.8, the mean including today
DragonVolBoost(f) == 50 * f.vol > 18 * VSum5(f)
DragonBreakout(f) == f.close > f.platHigh

DragonScoreWeightsSwapped(f) ==
    (IF DragonDeepDrop(f) THEN 30 ELSE 0) + (IF DragonVolBoost(f) THEN 40 ELSE 0)
      + (IF GoldCross(f) THEN 30 ELSE 0)

DragonScore(f) ==
    (IF DragonDeepDrop(f) THEN 40 ELSE 0) + (IF DragonVolBoost(f) THEN 30 ELSE 0)
      + (IF GoldCross(f) THEN 30 ELSE 0)

DragonSuggestionByVolume(f) ==
    IF DragonVolBoost(f) THEN "heavy"
    ELSE IF DragonBreakout(f) THEN "trial" ELSE "light"

DragonSuggestion(f) ==
    IF DragonScore(f) >= 90 THEN "heavy"
    ELSE IF DragonBreakout(f) THEN "trial" ELSE "light"

DragonRow(f, name) ==
    [code |-> ColumnCode(f), name |-> name, price |-> f.close,
     score |-> DragonScore(f), advice |-> DragonSuggestion(f)]

screen_logic(f, tbl) ==
    IF f.csv = "bad" THEN None(FALSE)
    ELSE IF f.n < 60 THEN None(FALSE)
    ELSE IF DragonBoardReject(ColumnCode(f)) THEN None(FALSE)
    ELSE IF f.csv = "nocol" THEN None(FALSE)
    ELSE IF ~InBand(f.close) THEN None(FALSE)
    ELSE IF DragonScore(f) >= 70
         THEN Res("rec", TRUE, DragonRow(f, NameGet(f, tbl)))
    ELSE None(TRUE)


-----------------------------------------------------------------------------
(* volume_price_strategy.py *)

VpBoardReject(code) ==
    \/ StartsWith(code, <<"3", "0">>) \/ StartsWith(code, <<"6", "8", "8">>)
    \/ StartsWith(code, <<"8">>) \/ StartsWith(code, <<"4">>)

\* any(x in stock_name for x in ["ST", "delisting", "PT"])
VpNameReject(name) ==
    In(<<"S", "T">>, name) \/ In(<<"Tui">>, name) \/ In(<<"P", "T">>, name)

\* vol_ratio = curr_vol / avg_vol_5 if avg_vol_5 > 0 else 0, in hundredths;
\* avg_vol_5 is the mean of the 5 volumes before the last row
VpVolRatio(f) == IF f.vp5 > 0 THEN RoundDiv(500 * f.vol, f.vp5) ELSE 0
VpVolBetween(f, lo, hi) ==
    IF f.vp5 > 0 THEN lo * f.vp5 <= 50 * f.vol /\ 50 * f.vol <= hi * f.vp5
    ELSE lo <= 0 /\ 0 <= hi
VpVolBelow(f, hi) == IF f.vp5 > 0 THEN 50 * f.vol < hi * f.vp5 ELSE 0 < hi

\* entity_ratio > 0.8, entity_ratio = (close - low) / (high - low) if high != low else 0
VpFullBody(f) ==
    f.high # f.low /\ 10 * (f.close - f.low) > 8 * (f.high - f.low)

VpRising(f) ==
    /\ 30 <= f.pct /\ f.pct <= 75
    /\ VpVolBetween(f, 15, 40)
    /\ 30 <= f.turnover /\ f.turnover <= 100

VpWashout(f) ==
    -15 <= f.pct /\ f.pct <= 15 /\ VpVolBelow(f, 5) /\ f.close > f.ma20

\* f"{strength}%"
PercentStr(n) == Digits(n) \o <<"%">>

VpRow(f, name, strength, signal) ==
    [code |-> <<"'">> \o BaseCode(f), name |-> name, price |-> f.close,
     pct |-> f.pct, volratio |-> VpVolRatio(f), signal |-> signal,
     score |-> strength, strength |-> PercentStr(strength),
     advice |-> IF strength = 95 THEN "build" ELSE "probe"]

vp_analyze_stock(f, tbl) ==
    LET name == NameGet(f, tbl) IN
    IF f.csv = "bad" THEN None(FALSE)
    ELSE IF f.n < 30 THEN None(FALSE)
    ELSE IF VpBoardReject(BaseCode(f)) THEN None(FALSE)
    ELSE IF InRaises(name) THEN None(FALSE)
    ELSE IF VpNameReject(name) THEN None(FALSE)
    ELSE IF f.csv = "nocol" THEN None(FALSE)
    ELSE IF ~InBand(f.close) THEN None(FALSE)
    ELSE IF f.close < f.ma20 THEN None(TRUE)
    ELSE IF VpRising(f)
         THEN (IF VpFullBody(f) THEN Res("rec", TRUE, VpRow(f, name, 95, "rising"))
               ELSE None(TRUE))
    ELSE IF VpWashout(f) THEN Res("rec", TRUE, VpRow(f, name, 80, "washout"))
    ELSE None(TRUE)

-----------------------------------------------------------------------------
(* weekly_box_breakout.py *)

WeeklyBoardReject(code) ==
    \/ StartsWith(code, <<"3", "0">>) \/ StartsWith(code, <<"6", "8">>)
    \/ StartsWith(code, <<"4">>) \/ StartsWith(code, <<"8">>)

WeeklyNameReject(name) == In(<<"S", "T">>, name) \/ In(<<"*">>, name)

\* rolling(60).mean() of the weekly close at the last and the previous week:
\* NaN until 60 weekly bars are in the window
WeeklyMA60(f) == IF f.nWeeks >= 60 THEN Num(f.ma60) ELSE NaN
WeeklyMA60PrevOneEarly(f) == IF f.nWeeks >= 60 THEN Num(f.ma60Prev) ELSE NaN

WeeklyMA60Prev(f) == IF f.nWeeks >= 61 THEN Num(f.ma60Prev) ELSE NaN

\* box_amplitude <= p / 100, box_amplitude = (box_max - box_min) / box_min
WeeklyAmplitudeLe(f, p) == 100 * (f.boxMax - f.boxMin) <= p * f.boxMin
\* vol_ratio >= t / 10, vol_ratio = volume / mean of the 12 observed weeks
WeeklyVolRatioGe(f, t) == 120 * f.vol >= t * f.obsVol

WeeklyCondBox(f) == WeeklyAmplitudeLe(f, 20)
WeeklyCondVolume(f) == WeeklyVolRatioGe(f, 18)
WeeklyCondPrice(f) == 100 * f.close >= 103 * f.boxMax /\ f.close > f.wopen
WeeklyCondMa(f) ==
    /\ f.ma5 > f.ma10 /\ f.ma10 > f.ma20
    /\ FGt(WeeklyMA60(f), WeeklyMA60Prev(f))

WeeklyScore(f) ==
    60 + (IF WeeklyVolRatioGe(f, 25) THEN 15 ELSE 0)
       + (IF WeeklyAmplitudeLe(f, 12) THEN 15 ELSE 0)
       + (IF f.close < 100 THEN 10 ELSE 0)

WeeklyAdvice(score) ==
    IF score >= 90 THEN "strike" ELSE IF score >= 80 THEN "preferred" ELSE "watch"

WeeklyRow(f, name) ==
    [code |-> BaseCode(f), name |-> name, price |-> f.close,
     score |-> WeeklyScore(f), advice |-> WeeklyAdvice(WeeklyScore(f)),
     stop |-> f.boxMax]

screen_stock(f, tbl) ==
    LET name == NameGet(f, tbl) IN
    IF f.csv = "bad" THEN None(FALSE)
    ELSE IF f.n < 80 THEN None(FALSE)
    ELSE IF WeeklyBoardReject(BaseCode(f)) THEN None(FALSE)
    ELSE IF InRaises(name) THEN None(FALSE)
    ELSE IF WeeklyNameReject(name) THEN None(FALSE)
    ELSE IF f.csv = "nocol" THEN None(FALSE)
    ELSE IF f.nWeeks < 30 THEN None(FALSE)
    ELSE IF ~InBand(f.close) THEN None(FALSE)
    ELSE IF WeeklyCondBox(f) /\ WeeklyCondVolume(f) /\ WeeklyCondPrice(f)
              /\ WeeklyCondMa(f)
         THEN Res("rec", TRUE, WeeklyRow(f, name))
    ELSE None(TRUE)

-----------------------------------------------------------------------------
(* The worker of each script, as the pool calls it *)

Scripts == {"crash", "scanner", "multidim", "dragon", "volume", "weekly"}

Worker(sc, f, tbl) ==
    CASE sc = "crash" -> backtest_and_screen(f)
      [] sc = "scanner" -> process_single_stock(f, tbl)
      [] sc = "multidim" -> multidim_analyze_stock(f)
      [] sc = "dragon" -> screen_logic(f, tbl)
      [] sc = "volume" -> vp_analyze_stock(f, tbl)
      [] sc = "weekly" -> screen_stock(f, tbl)


-----------------------------------------------------------------------------
(* Sorting and the report path *)

\* the results main() keeps, in the order of the input files (pool.map and
\* starmap return their results in input order)
Kept(o) == SelectSeq(o, LAMBDA r : r.st = "rec")
Rows(o) == [i \in 1..Len(Kept(o)) |-> Kept(o)[i].row]

Perms(n) == {p \in [1..n -> 1..n] : \A i, j \in 1..n : p[i] = p[j] => i = j}

\* order of the characters of a strength string: "%" sorts below the digits
CharOrd(c) == IF c = "%" THEN 0 ELSE DigitVal(c) + 1

\* a >= b for strings, as Python compares them
RECURSIVE StrGe(_, _)
StrGe(a, b) ==
    IF b = <<>> THEN TRUE
    ELSE IF a = <<>> THEN FALSE
    ELSE IF CharOrd(a[1]) # CharOrd(b[1]) THEN CharOrd(a[1]) > CharOrd(b[1])
    ELSE StrGe(Tail(a), Tail(b))

\* by=['win rate', 'price'], ascending=[False, True]
CrashBefore(a, b) ==
    a.winrate > b.winrate \/ (a.winrate = b.winrate /\ a.price <= b.price)
\* by='volume ratio', ascending=True; NaN sorts last
ScannerBefore(a, b) == IsNaN(b.volratio) \/ FLe(a.volratio, b.volratio)
\* by='strength', ascending=False, on the integer column
ScoreBefore(a, b) == a.score >= b.score
\* by='signal strength', ascending=False, on the column of strings
VpBefore(a, b) == StrGe(a.strength, b.strength)

\* the sort key of each script that sorts
Before(sc, a, b) ==
    CASE sc = "crash" -> CrashBefore(a, b)
      [] sc = "scanner" -> ScannerBefore(a, b)
      [] sc = "volume" -> VpBefore(a, b)
      [] OTHER -> ScoreBefore(a, b)

\* DataFrame.sort_values: every arrangement of the rows that is ordered by
\* the key; rows with equal keys may come in any order
SortedBy(sc, rows) ==
    {q \in {[i \in 1..Len(rows) |-> rows[p[i]]] : p \in Perms(Len(rows))} :
        \A i \in 1..(Len(rows) - 1) : Before(sc, q[i], q[i + 1])}

\* the orders in which the script may write the rows: dragon_breakout does
\* not sort, its rows stay in the order of the input files
Arranged(sc, rows) == IF sc = "dragon" THEN {rows} ELSE SortedBy(sc, rows)

\* the row of the name table for a code; the table writes its codes with
\* all 6 digits, so that the scripts that key it with and without zfill(6)
\* agree on the key
TableCell(code) ==
    LET S == {i \in DOMAIN files : Zfill(files[i].base, 6) = code} IN
    IF S = {} THEN NoRow ELSE files[CHOOSE i \in S : TRUE].nm

\* pd.merge(res_df, names, how='left'): a code with no row gets NaN
CrashJoin(rows) ==
    [i \in DOMAIN rows |->
        [rows[i] EXCEPT !.name = IF TableCell(rows[i].code).t = "str"
                                  THEN TableCell(rows[i].code) ELSE FloatCell]]

\* name[0] if len(name) > 0 else "unknown", when the name file exists
MultiJoin(rows) ==
    [i \in DOMAIN rows |->
        [rows[i] EXCEPT !.name = IF TableCell(rows[i].code).t = "norow"
                                  THEN StrCell(Unknown)
                                  ELSE TableCell(rows[i].code)]]

\* strftime of the time stamp in the file name: what the format keeps
Stamp(sc, t) ==
    CASE sc = "volume" -> <<t.d>>
      [] sc = "crash" -> <<t.d, t.m>>
      [] OTHER -> <<t.d, t.m, t.s>>

ReportPath(sc, t) == <<sc>> \o Stamp(sc, t)


-----------------------------------------------------------------------------
(* The input files *)

Plain == StrCell(<<"p", "a">>)
STName == StrCell(<<"S", "T", "k">>)
NameCells == {NoRow, Plain, STName, FloatCell}

Code(a, b, c) == <<a, b, "0", "0", "0", c>>
Bases == {Code("0", "0", "1"), Code("6", "0", "1"), Code("3", "0", "1")}

\* the minimum row count of each script
MinRows(sc) ==
    CASE sc = "volume" -> 30
      [] sc = "weekly" -> 80
      [] OTHER -> 60

Blank ==
    [base |-> Code("0", "0", "1"), nm |-> Plain, csv |-> "ok", n |-> 60,
     close |-> 120, pct |-> 0, gain |-> 40, loss |-> 60,
     vol |-> 100, vp4 |-> 400, vp5 |-> 500,
     dif |-> 2, dea |-> 3, difPrev |-> 1, deaPrev |-> 4,
     ma5 |-> 110, ma10 |-> 110, ma20 |-> 110, ma60 |-> 110, ma60Prev |-> 110,
     k |-> 200, d |-> 200, kPrev |-> 200, dPrev |-> 200,
     turn30 |-> 20, turnover |-> 50, high |-> 121, low |-> 100,
     high250 |-> 200, platHigh |-> 130, hist |-> <<>>,
     nWeeks |-> 61, wopen |-> 110, boxMax |-> 110, boxMin |-> 100,
     obsVol |-> 400]

Closes == {40, 120, 250}
\* <<dif, dea, difPrev, deaPrev>>: golden cross; above and widening without a
\* cross; above and narrowing; below
MacdCases == {<<5, 3, 2, 4>>, <<6, 3, 4, 2>>, <<5, 3, 6, 2>>, <<2, 3, 1, 4>>}
\* <<vol, vp5>>: sum of the 5 volumes before the last row
Vol5Cases == {<<70, 500>>, <<200, 500>>, <<20, 500>>, <<100, 0>>}

BoundedSeqs(S, n) == UNION {[1..m -> S] : m \in 0..n}

CrashBars ==
    {[Blank EXCEPT !.close = c, !.pct = p, !.gain = r[1], !.loss = r[2],
                   !.vol = v[1], !.vp4 = v[2], !.dif = m[1], !.dea = m[2],
                   !.difPrev = m[3], !.deaPrev = m[4], !.ma10 = a, !.hist = h] :
        c \in Closes, p \in {-50, 0},
        r \in {<<28, 72>>, <<32, 68>>, <<0, 0>>, <<50, 0>>},
        v \in {<<70, 430>>, <<100, 400>>},
        m \in {<<5, 3, 2, 4>>, <<5, 3, 6, 2>>, <<2, 3, 1, 4>>},
        a \in {100, 150}, h \in BoundedSeqs({-5, 5}, MaxHist)}

ScannerBars ==
    {[Blank EXCEPT !.close = c, !.turn30 = t, !.ma60 = a, !.pct = p,
                   !.gain = r[1], !.loss = r[2], !.k = k, !.ma5 = b,
                   !.vol = v[1], !.vp5 = v[2]] :
        c \in Closes, t \in {20, 30}, a \in {130, 280}, p \in {0, 20},
        r \in {<<20, 80>>, <<0, 0>>, <<5, 0>>, <<40, 60>>},
        k \in {200, 400}, b \in {110, 260},
        v \in {<<70, 500>>, <<50, 500>>, <<100, 0>>}}

MultiBars ==
    {[Blank EXCEPT !.close = c, !.ma60 = a[1], !.ma60Prev = a[2],
                   !.dif = m[1], !.dea = m[2], !.difPrev = m[3], !.deaPrev = m[4],
                   !.k = j[1], !.d = j[2], !.kPrev = j[3], !.dPrev = j[4],
                   !.ma5 = b[1], !.ma10 = b[2], !.vol = v[1], !.vp4 = v[2],
                   !.pct = p] :
        c \in Closes, a \in {<<100, 100>>, <<150, 150>>, <<100, 101>>},
        m \in MacdCases,
        j \in {<<60, 50, 50, 50>>, <<60, 50, 90, 50>>, <<40, 50, 30, 50>>},
        b \in {<<110, 100>>, <<100, 110>>}, v \in {<<100, 100>>, <<100, 400>>},
        p \in {0, 50}}

DragonBars ==
    {[Blank EXCEPT !.close = c, !.high250 = h, !.vol = v[1], !.vp4 = v[2],
                   !.platHigh = q, !.dif = m[1], !.dea = m[2],
                   !.difPrev = m[3], !.deaPrev = m[4]] :
        c \in Closes, h \in {260, 300, 400}, v \in {<<100, 100>>, <<100, 400>>},
        q \in {100, 300}, m \in {<<5, 3, 2, 4>>, <<5, 3, 6, 2>>, <<2, 3, 1, 4>>}}

VpBars ==
    {[Blank EXCEPT !.close = c, !.ma20 = a, !.pct = p, !.vol = v[1],
                   !.vp5 = v[2], !.turnover = t, !.high = c + e[1],
                   !.low = c - e[2]] :
        c \in Closes, a \in {100, 150}, p \in {-50, 0, 50}, v \in Vol5Cases,
        t \in {20, 50}, e \in {<<1, 20>>, <<80, 20>>, <<0, 0>>}}

WeeklyBars ==
    {[Blank EXCEPT !.close = c, !.nWeeks = w, !.boxMax = x[1], !.boxMin = x[2],
                   !.obsVol = o, !.wopen = q, !.ma5 = b[1], !.ma10 = b[2],
                   !.ma20 = b[3], !.ma60 = a[1], !.ma60Prev = a[2]] :
        c \in {90, 120, 250}, w \in {29, 30, 60, 61},
        x \in {<<85, 80>>, <<110, 100>>, <<115, 100>>, <<130, 100>>},
        o \in {400, 600, 1200}, q \in {80, 125},
        b \in {<<103, 102, 101>>, <<101, 102, 103>>},
        a \in {<<100, 99>>, <<100, 100>>}}

Bars(sc) ==
    CASE sc = "crash" -> CrashBars
      [] sc = "scanner" -> ScannerBars
      [] sc = "multidim" -> MultiBars
      [] sc = "dragon" -> DragonBars
      [] sc = "volume" -> VpBars
      [] sc = "weekly" -> WeeklyBars

\* <<csv, rows below the minimum>>
Shapes == {<<"ok", 0>>, <<"ok", 1>>, <<"bad", 0>>, <<"nocol", 0>>}

\* every file the worker of sc is checked on
Inputs(sc) ==
    {[b EXCEPT !.base = c, !.nm = m, !.csv = s[1], !.n = MinRows(sc) - s[2]] :
        b \in Bars(sc), c \in Bases, m \in NameCells, s \in Shapes}


\* a few files per script for the runs over several files: files that the
\* cascade admits with different scores and sort keys, files that reach the
\* same score by different conditions, and one it rejects
Picks(sc) ==
    CASE sc = "crash" ->
           {[Blank EXCEPT !.gain = 28, !.loss = 72, !.vol = 70, !.vp4 = 430,
                          !.dif = 5, !.difPrev = 2, !.ma10 = 100, !.hist = <<-5>>],
            [Blank EXCEPT !.gain = 32, !.loss = 68, !.vol = 70, !.vp4 = 430,
                          !.dif = 5, !.difPrev = 2, !.ma10 = 150, !.hist = <<5>>],
            [Blank EXCEPT !.gain = 32, !.loss = 68, !.vol = 70, !.vp4 = 430,
                          !.dif = 5, !.difPrev = 2, !.ma10 = 100, !.hist = <<5>>],
            [Blank EXCEPT !.gain = 28, !.loss = 72, !.vol = 70, !.vp4 = 430,
                          !.dif = 5, !.difPrev = 2, !.ma10 = 150, !.hist = <<5>>],
            [Blank EXCEPT !.pct = -50]}
      [] sc = "scanner" ->
           {[Blank EXCEPT !.ma60 = 130, !.gain = 20, !.loss = 80, !.vol = 70],
            [Blank EXCEPT !.ma60 = 130, !.gain = 20, !.loss = 80, !.vol = 50],
            [Blank EXCEPT !.turn30 = 30]}
      [] sc = "multidim" ->
           {[Blank EXCEPT !.ma60 = 100, !.ma60Prev = 100, !.dif = 5, !.k = 60,
                          !.d = 50, !.kPrev = 50, !.dPrev = 50, !.ma10 = 100,
                          !.vp4 = 100, !.pct = 50],
            [Blank EXCEPT !.ma60 = 100, !.ma60Prev = 100, !.dif = 5, !.k = 60,
                          !.d = 50, !.kPrev = 50, !.dPrev = 50, !.ma10 = 100],
            [Blank EXCEPT !.ma60 = 100, !.ma60Prev = 100, !.dif = 5, !.k = 60,
                          !.d = 50, !.kPrev = 50, !.dPrev = 50, !.ma10 = 100,
                          !.vp4 = 100],
            [Blank EXCEPT !.ma60 = 100, !.ma60Prev = 100, !.dif = 5, !.k = 60,
                          !.d = 50, !.kPrev = 50, !.dPrev = 50, !.ma10 = 100,
                          !.pct = 50],
            Blank}
      [] sc = "dragon" ->
           {[Blank EXCEPT !.high250 = 400, !.vp4 = 100, !.dif = 5],
            [Blank EXCEPT !.high250 = 400, !.dif = 5],
            [Blank EXCEPT !.high250 = 400, !.dif = 5, !.platHigh = 100],
            [Blank EXCEPT !.high250 = 400, !.vp4 = 100],
            Blank}
      [] sc = "volume" ->
           {[Blank EXCEPT !.ma20 = 100, !.pct = 50, !.vol = 200],
            [Blank EXCEPT !.ma20 = 100, !.vol = 20],
            [Blank EXCEPT !.ma20 = 100, !.pct = 60, !.vol = 150, !.turnover = 80],
            Blank}
      [] sc = "weekly" ->
           {[Blank EXCEPT !.ma5 = 103, !.ma10 = 102, !.ma20 = 101, !.ma60 = 100,
                          !.ma60Prev = 99],
            [Blank EXCEPT !.ma5 = 103, !.ma10 = 102, !.ma20 = 101, !.ma60 = 100,
                          !.ma60Prev = 99, !.boxMax = 115, !.obsVol = 600],
            [Blank EXCEPT !.ma5 = 103, !.ma10 = 102, !.ma20 = 101, !.ma60 = 100,
                          !.ma60Prev = 99, !.boxMax = 115],
            [Blank EXCEPT !.ma5 = 103, !.ma10 = 102, !.ma20 = 101, !.ma60 = 100,
                          !.ma60Prev = 99, !.obsVol = 600],
            Blank}

\* <<base, name cell>> of the files of the runs over several files
PickIds ==
    {<<c, NoRow>> : c \in Bases}
      \cup {<<Code("0", "0", "1"), Plain>>, <<Code("6", "0", "1"), STName>>,
            <<Code("6", "0", "1"), FloatCell>>, <<Code("3", "0", "1"), Plain>>}

Catalog(sc) ==
    {[b EXCEPT !.base = id[1], !.nm = id[2], !.n = MinRows(sc)] :
        b \in Picks(sc), id \in PickIds}
      \cup {[Blank EXCEPT !.base = Code("6", "0", "1"), !.nm = NoRow,
                          !.csv = "bad", !.n = MinRows(sc)]}

\* the listings of a directory: files have distinct names
FileLists(S, n) ==
    {q \in BoundedSeqs(S, n) :
        \A i, j \in DOMAIN q : q[i].base = q[j].base => i = j}

\* without a name table file there is no row for any code
TableAgrees(ex, q) == ex \/ \A i \in DOMAIN q : q[i].nm = NoRow

-----------------------------------------------------------------------------
(* main() *)

T0 == [d |-> 0, m |-> 0, s |-> 0]

InitRun ==
    /\ pc = "start"
    /\ out = [i \in DOMAIN files |-> Pending]
    /\ names = "unloaded"
    /\ report = <<>>
    /\ written = FALSE
    /\ printed = "nothing"
    /\ clock = T0
    /\ startedAt = T0
    /\ nowAt = T0
    /\ history = <<>>
    /\ run = 1

\* runs of every script over up to MaxFiles files
Init ==
    /\ script \in Scripts
    /\ namesExists \in BOOLEAN
    /\ files \in FileLists(Catalog(script), MaxFiles)
    /\ TableAgrees(namesExists, files)
    /\ InitRun

\* runs of every script over one file, the file drawn from every input
InitWorker ==
    /\ script \in Scripts
    /\ namesExists \in BOOLEAN
    /\ files \in {<<f>> : f \in Inputs(script)}
    /\ TableAgrees(namesExists, files)
    /\ InitRun

LoadsFirstButVolume(sc) == sc \in {"scanner", "dragon", "weekly"}

\* the scripts that open the name table before the pool starts
LoadsFirst(sc) == sc \in {"scanner", "dragon", "volume", "weekly"}

\* the name table is read and the pool is started
StartLoad ==
    /\ pc = "start" /\ LoadsFirst(script) /\ namesExists
    /\ names' = "loaded"
    /\ pc' = "map"
    /\ startedAt' = clock
    /\ nowAt' = clock
    /\ UNCHANGED <<script, namesExists, files, out, report, written, printed,
                   clock, history, run>>

\* volume_price_strategy and weekly_box_breakout: os.path.exists fails,
\* main prints and returns
StartAbort ==
    /\ pc = "start" /\ script \in {"volume", "weekly"} /\ ~namesExists
    /\ printed' = "names-missing"
    /\ pc' = "done"
    /\ startedAt' = clock
    /\ UNCHANGED <<script, namesExists, files, out, names, report, written,
                   clock, nowAt, history, run>>

\* dragon_breakout: pd.read_csv of the absent name table raises
StartCrash ==
    /\ pc = "start" /\ script = "dragon" /\ ~namesExists
    /\ pc' = "crashed"
    /\ startedAt' = clock
    /\ UNCHANGED <<script, namesExists, files, out, names, report, written,
                   printed, clock, nowAt, history, run>>

\* the pool is started without a name table: stock_scanner_go with name_map
\* = {}, crash_recovery_strategy and multidim_resonance_strategy, which
\* look at the name table after the pool
StartNoNames ==
    /\ pc = "start"
    /\ ~LoadsFirst(script) \/ (script = "scanner" /\ ~namesExists)
    /\ names' = IF script = "scanner" THEN "empty" ELSE "unloaded"
    /\ pc' = "map"
    /\ startedAt' = clock
    /\ nowAt' = clock
    /\ UNCHANGED <<script, namesExists, files, out, report, written, printed,
                   clock, history, run>>

\* one task of the pool runs to its end
WorkerDone(i) ==
    /\ pc = "map"
    /\ out[i].st = "pending"
    /\ out' = [out EXCEPT ![i] = Worker(script, files[i], names)]
    /\ UNCHANGED <<script, namesExists, files, pc, names, report, written,
                   printed, clock, startedAt, nowAt, history, run>>

AllDone == \A i \in DOMAIN out : out[i].st # "pending"
Raised == \E i \in DOMAIN out : out[i].st = "raise"

\* pool.map re-raises the exception of a task once all tasks are done
FinishRaise ==
    /\ pc = "map" /\ AllDone /\ Raised
    /\ pc' = "crashed"
    /\ UNCHANGED <<script, namesExists, files, out, names, report, written,
                   printed, clock, startedAt, nowAt, history, run>>

\* no result: the message, and no file (every script but multidim)
FinishNone ==
    /\ pc = "map" /\ AllDone /\ ~Raised
    /\ script # "multidim"
    /\ Rows(out) = <<>>
    /\ printed' = "none"
    /\ pc' = "done"
    /\ UNCHANGED <<script, namesExists, files, out, names, report, written,
                   clock, startedAt, nowAt, history, run>>

\* crash_recovery_strategy reads the name table once there are results
FinishNamesCrash ==
    /\ pc = "map" /\ AllDone /\ ~Raised
    /\ script = "crash" /\ Rows(out) # <<>> /\ ~namesExists
    /\ pc' = "crashed"
    /\ UNCHANGED <<script, namesExists, files, out, names, report, written,
                   printed, clock, startedAt, nowAt, history, run>>

\* the rows with the name column main() adds
Joined(sc, ex, rows) ==
    CASE sc = "crash" -> CrashJoin(rows)
      [] sc = "multidim" -> IF ex THEN MultiJoin(rows) ELSE rows
      [] OTHER -> rows

\* the time in the file name: stock_scanner_go takes it when main starts,
\* the others before writing
FileTime(sc) == IF sc = "scanner" THEN nowAt ELSE clock

\* the report is sorted and written
FinishReport ==
    /\ pc = "map" /\ AllDone /\ ~Raised
    /\ script = "multidim" \/ Rows(out) # <<>>
    /\ script = "crash" => namesExists
    /\ report' \in Arranged(script, Joined(script, namesExists, Rows(out)))
    /\ written' = TRUE
    /\ printed' = "saved"
    /\ nowAt' = FileTime(script)
    /\ history' = Append(history, [run |-> run, started |-> startedAt,
                                   wrote |-> clock, rows |-> Len(Rows(out)),
                                   path |-> ReportPath(script, FileTime(script))])
    /\ names' = IF script \in {"crash", "multidim"} /\ namesExists
                THEN "loaded" ELSE names
    /\ pc' = "done"
    /\ UNCHANGED <<script, namesExists, files, out, clock, startedAt, run>>

Next ==
    \/ StartLoad
    \/ StartAbort
    \/ StartCrash
    \/ StartNoNames
    \/ \E i \in DOMAIN files : WorkerDone(i)
    \/ FinishRaise
    \/ FinishNone
    \/ FinishNamesCrash
    \/ FinishReport

Spec == Init /\ [][Next]_vars

SpecWorker == InitWorker /\ [][Next]_vars


-----------------------------------------------------------------------------
(* Several runs of one script, with the wall clock *)

Times == [d : 0..MaxTick, m : 0..MaxTick, s : 0..MaxTick]

\* t is earlier than u
Earlier(t, u) ==
    \/ t.d < u.d
    \/ (t.d = u.d /\ t.m < u.m)
    \/ (t.d = u.d /\ t.m = u.m /\ t.s < u.s)

\* time passes before main() starts and while the pool works
Tick ==
    /\ pc \in {"start", "map"}
    /\ \E t \in Times : Earlier(clock, t) /\ clock' = t
    /\ UNCHANGED <<script, namesExists, files, pc, out, names, report, written,
                   printed, startedAt, nowAt, history, run>>

\* the script is started again, on the same data, after the earlier run ended
NextRun ==
    /\ pc \in {"done", "crashed"}
    /\ run < MaxRuns
    /\ run' = run + 1
    /\ pc' = "start"
    /\ out' = [i \in DOMAIN files |-> Pending]
    /\ names' = "unloaded"
    /\ report' = <<>>
    /\ written' = FALSE
    /\ printed' = "nothing"
    /\ startedAt' = clock
    /\ nowAt' = clock
    /\ UNCHANGED <<script, namesExists, files, clock, history>>

\* one file of the directory at most
InitRuns ==
    /\ script \in Scripts
    /\ namesExists \in BOOLEAN
    /\ files \in FileLists(Catalog(script), 1)
    /\ TableAgrees(namesExists, files)
    /\ InitRun

NextRuns == Next \/ Tick \/ NextRun

SpecRuns == InitRuns /\ [][NextRuns]_vars


-----------------------------------------------------------------------------
(* Properties *)

Done(i) == out[i].st # "pending"
Ended == pc \in {"done", "crashed"}

\* C1: a failure while processing one symbol (unreadable or malformed CSV,
\* missing column, non-string name cell) gives None for that symbol only: no
\* worker raises, the symbol with the unusable CSV has no result, and the
\* report holds the results of all other symbols.
C1_FailureIsLocal ==
    /\ \A i \in DOMAIN out : out[i].st # "raise"
    /\ \A i \in DOMAIN out : files[i].csv # "ok" /\ Done(i) => out[i].st = "none"
    /\ written => Len(report) = Len(Rows(out))

\* C2 as stated: in every script, when the name table file is absent no
\* per-symbol task is started and no report is written.
C2_AbsentNamesAbortsEveryScript ==
    ~namesExists => (\A i \in DOMAIN out : ~Done(i)) /\ ~written

\* C2 as amended: without the name table file, volume_price_strategy,
\* weekly_box_breakout and dragon_breakout end before any per-symbol task is
\* started and write no report; crash_recovery_strategy runs its tasks and
\* writes no report; multidim_resonance_strategy runs to its end and writes
\* its report, with no name column; stock_scanner_go runs with an empty
\* name map and writes its report whenever a symbol is admitted.
C2_AbsentNames ==
    ~namesExists =>
        /\ script \in {"volume", "weekly", "dragon"} =>
               (\A i \in DOMAIN out : ~Done(i)) /\ ~written
        /\ script \in {"volume", "weekly"} /\ Ended =>
               pc = "done" /\ printed = "names-missing"
        /\ script = "dragon" /\ Ended => pc = "crashed"
        /\ script = "crash" => ~written
        /\ script = "multidim" /\ Ended =>
               written /\ \A j \in DOMAIN report : report[j].name = NoRow
        /\ script = "scanner" /\ Ended =>
               pc = "done" /\ (written <=> Rows(out) # <<>>)

\* a run without the name table that ended, over at least one file
C2_Witness ==
    /\ ~namesExists /\ script = "volume" /\ pc = "done" /\ files # <<>>
    /\ printed = "names-missing"

\* the rsi of an emitted record, where the record has one
HasRsi(sc) == sc \in {"crash", "scanner"}

\* C3: a symbol whose RSI denominator (the loss over the window) is zero on
\* the last bar is never admitted, and every RSI in an emitted record lies
\* in [0, 100].
C3_ZeroLossRsiNotAdmitted ==
    \A i \in DOMAIN out :
        HasRsi(script) /\ Done(i) =>
            /\ files[i].loss = 0 => out[i].st = "none"
            /\ out[i].st = "rec" =>
                   FLe(Num(0), out[i].row.rsi) /\ FLe(out[i].row.rsi, Num(10000))

\* C4 as stated: in every script a symbol whose last close is outside
\* [5.0, 20.0] produces no record.
C4_OutOfBandRejectedEveryScript ==
    \A i \in DOMAIN out : out[i].st = "rec" => InBand(files[i].close)

\* C4 as amended: in every script but stock_scanner_go a symbol whose last
\* close is outside [5.0, 20.0] produces no record, whatever its other
\* fields; stock_scanner_go rejects a close below 5.0 and has no ceiling.
C4_OutOfBandRejected ==
    \A i \in DOMAIN out :
        Done(i) =>
            /\ script # "scanner" /\ (files[i].close < 50 \/ files[i].close > 200)
                   => out[i].st = "none"
            /\ script = "scanner" /\ files[i].close < 50 => out[i].st # "rec"

\* a readable, long enough main-board file that only the price band rejects
C4_Witness ==
    /\ script = "volume" /\ Len(files) = 1 /\ Done(1)
    /\ files[1].close = 250 /\ files[1].csv = "ok" /\ files[1].n >= 30
    /\ files[1].base = Code("0", "0", "1") /\ files[1].nm = Plain
    /\ files[1].close >= files[1].ma20
    /\ VpRising(files[1]) /\ VpFullBody(files[1])
    /\ out[1].st = "none"

\* the code of a file, as every script reads it
FileCode(f) == Zfill(f.base, 6)
\* the name table calls the symbol a special-treatment issue
IsST(f) == namesExists /\ f.nm.t = "str" /\ Contains(f.nm.s, <<"S", "T">>)

\* C5: a ventures-board symbol (code prefix 30) or a special-treatment symbol
\* (name containing ST) is rejected before any indicator is computed, in
\* every script, and never appears in a report.
C5_BoardExcludedBeforeIndicators ==
    \A i \in DOMAIN out :
        Done(i) /\ (StartsWith(FileCode(files[i]), <<"3", "0">>) \/ IsST(files[i]))
            => out[i].st = "none" /\ ~out[i].ind

\* the scripts whose records carry a strength score: stock_scanner_go has
\* none; crash_recovery_strategy reports it as its star label, which grows
\* with the score
HasScore(sc) == sc # "scanner"

\* C6: the rows of the report are in non-increasing order of the strength
\* score, whatever the order of the files and of the tasks.
C6_ReportSortedByScore ==
    written /\ HasScore(script) =>
        \A j \in 1..(Len(report) - 1) : report[j].score >= report[j + 1].score

\* C7: when no symbol passes the cascade (zero input files included) the
\* run ends successfully, prints the no-qualifying-symbols message and
\* creates no output file, in every script.
C7_EmptyRunWritesNothing ==
    namesExists /\ Ended /\ AllDone /\ ~Raised /\ Rows(out) = <<>> =>
        pc = "done" /\ printed = "none" /\ ~written

\* the code of a report row: volume_price_strategy writes it after a quote
RowCode(sc, r) == IF sc = "volume" THEN Tail(r.code) ELSE r.code

\* C8: every report row whose code has no entry in the name table carries
\* the sentinel name.
C8_MissingNameIsSentinel ==
    written /\ namesExists =>
        \A j \in DOMAIN report :
            TableCell(RowCode(script, report[j])).t = "norow"
                => report[j].name = StrCell(Unknown)

\* the last bar of scenario 1 in a readable main-board file of 60 rows:
\* close 12.0, RSI 28, volume 0.7 times its 5-day mean, DIF rising and
\* above DEA
C9_Scenario(f) ==
    /\ f.csv = "ok" /\ f.n >= 60
    /\ ~CrashBoardReject(ColumnCode(f))
    /\ f.close = 120
    /\ CrashRSI(f.gain, f.loss) = Num(2800)
    /\ 50 * f.vol = 7 * VSum5(f)
    /\ f.dif > f.difPrev /\ f.dif > f.dea

\* C9 as stated: the scenario is admitted with the five-star label, for
\* every value of the remaining fields.
C9_ScenarioAdmittedWhateverElse ==
    \A i \in DOMAIN out :
        script = "crash" /\ Done(i) /\ C9_Scenario(files[i]) =>
            out[i].st = "rec" /\ out[i].row.status = "5star"

\* C9 as amended: the scenario is admitted with the five-star label (score
\* >= 85) when moreover the change of the last bar is at least -3.0 percent,
\* and is rejected when it is below.
C9_ScenarioAdmitted ==
    \A i \in DOMAIN out :
        script = "crash" /\ Done(i) /\ C9_Scenario(files[i]) =>
            IF files[i].pct >= -30
            THEN /\ out[i].st = "rec"
                 /\ out[i].row.status = "5star"
                 /\ out[i].row.score >= 85
            ELSE out[i].st = "none"

\* the scenario below its 10-day mean: only the RSI earns the fifth star
C9_Witness ==
    /\ script = "crash" /\ Len(files) = 1 /\ Done(1)
    /\ C9_Scenario(files[1]) /\ files[1].pct = 0 /\ files[1].ma10 = 150
    /\ out[1].st = "rec" /\ out[1].row.status = "5star"

\* C10: two runs of the same script started at different times, both of
\* which admit at least one symbol, write different report paths.  Stated
\* for the runs the clock tells apart: the later run starts at a later
\* reading of the clock than the one at which the earlier run wrote.
C10_DistinctReportPaths ==
    \A i, j \in DOMAIN history :
        /\ history[i].rows > 0 /\ history[j].rows > 0
        /\ Earlier(history[i].wrote, history[j].started)
        => history[i].path # history[j].path

\* the series of f is shorter than the minimum of the script: 60 daily bars,
\* 30 for volume_price_strategy, 80 daily or 30 weekly bars for
\* weekly_box_breakout
TooShort(sc, f) ==
    CASE sc = "volume" -> f.n < 30
      [] sc = "weekly" -> f.n < 80 \/ f.nWeeks < 30
      [] OTHER -> f.n < 60

\* C11: in every script a symbol whose series is shorter than the minimum
\* length of the tactic is rejected with no result, no indicator is computed
\* for it and no exception leaves the worker.
C11_ShortSeriesRejected ==
    \A i \in DOMAIN out :
        Done(i) /\ TooShort(script, files[i])
            => out[i].st = "none" /\ ~out[i].ind

\* the advisory columns of an emitted record: crash_recovery_strategy writes
\* its star label next to a fixed advice
Advisory(sc, r) == IF sc = "crash" THEN <<r.status, r.advice>> ELSE <<r.advice>>

\* C12 as stated: in every scoring script, any two emitted records of the
\* same run with equal strength score carry the same advisory text.
C12_AdvisoryFromScoreEveryScript ==
    \A i, j \in DOMAIN out :
        /\ HasScore(script) /\ out[i].st = "rec" /\ out[j].st = "rec"
        /\ out[i].row.score = out[j].row.score
        => Advisory(script, out[i].row) = Advisory(script, out[j].row)

\* C12 as amended: in every scoring script but dragon_breakout two emitted
\* records with equal score carry the same advisory text; in dragon_breakout
\* two emitted records carry the same advisory text when their scores are
\* equal and both or neither close above the 20-bar platform high, and any
\* two records of score 90 or more carry the same advisory text.
C12_AdvisoryFromScore ==
    \A i, j \in DOMAIN out :
        /\ HasScore(script) /\ out[i].st = "rec" /\ out[j].st = "rec"
        /\ out[i].row.score = out[j].row.score
        /\ script = "dragon" /\ out[i].row.score < 90
               => (files[i].close > files[i].platHigh
                     <=> files[j].close > files[j].platHigh)
        => Advisory(script, out[i].row) = Advisory(script, out[j].row)

\* two records of dragon_breakout that reach 70 by different conditions, one
\* by the volume boost and one by the golden cross, both below the platform
C12_Witness ==
    /\ script = "dragon" /\ Len(files) = 2 /\ Done(1) /\ Done(2)
    /\ out[1].st = "rec" /\ out[2].st = "rec"
    /\ out[1].row.score = 70 /\ out[2].row.score = 70
    /\ DragonVolBoost(files[1]) /\ ~DragonVolBoost(files[2])
    /\ ~DragonBreakout(files[1]) /\ ~DragonBreakout(files[2])
    /\ out[1].row.advice = out[2].row.advice

\* C13: in weekly_box_breakout a symbol with fewer than 61 weekly bars after
\* resampling is never admitted, although the weekly length test asks for
\* 30 only: the 60-week mean of the last or of the previous week is missing,
\* the test that it rises is false, and no record is produced.
C13_Below61WeeksNeverAdmitted ==
    \A i \in DOMAIN out :
        script = "weekly" /\ Done(i) /\ files[i].nWeeks < 61
            => out[i].st = "none"

\* 60 weekly bars: the file passes every filter and every other condition,
\* its 60-week mean exists for the last week only, and it gets no record
C13_Witness ==
    /\ script = "weekly" /\ Len(files) = 1 /\ Done(1)
    /\ files[1].csv = "ok" /\ files[1].n >= 80 /\ files[1].nWeeks = 60
    /\ files[1].base = Code("0", "0", "1") /\ files[1].nm = Plain
    /\ 50 <= files[1].close /\ files[1].close <= 200
    /\ WeeklyCondBox(files[1]) /\ WeeklyCondVolume(files[1])
    /\ WeeklyCondPrice(files[1])
    /\ files[1].ma5 > files[1].ma10 /\ files[1].ma10 > files[1].ma20
    /\ files[1].ma60 > files[1].ma60Prev
    /\ out[1].st = "none" /\ out[1].ind

\* the file passes the length, board and price filters of dragon_breakout
DragonPassesFilters(f) ==
    /\ f.csv = "ok" /\ f.n >= 60
    /\ \/ StartsWith(Zfill(f.base, 6), <<"6", "0">>)
       \/ StartsWith(Zfill(f.base, 6), <<"0", "0">>)
       \/ StartsWith(Zfill(f.base, 6), <<"0", "1">>)
    /\ 50 <= f.close /\ f.close <= 200

====
